---- MODULE Spec2Model ----
(***************************************************************************)
(* Two-/three-phase commit of a single SET over HTTP: one coordinator      *)
(* (coordinator.py) and its participants (participant.py), each with an    *)
(* in-memory transaction table, a write-ahead log and a thread per         *)
(* request.                                                                *)
(*                                                                         *)
(* Spec      the whole system: /tx/start requests served by concurrent     *)
(*           coordinator threads, the participants' handler threads,       *)
(*           timeouts, crashes and restarts with WAL replay.               *)
(* SpecPart  one participant in an open environment: any client may post   *)
(*           any request to its endpoints, concurrently, and requests the  *)
(*           coordinator rejects to /tx/start.                             *)
(* SpecRun   one /tx/start on a fresh system with no timeout and no crash, *)
(*           every thread scheduled until it ends.                         *)
(* SpecCrash one /tx/start on a fresh system with crashes and restarts of  *)
(*           the coordinator and the participants, fairly scheduled.       *)
(***************************************************************************)
EXTENDS Naturals, Sequences, FiniteSets, TLC

VARIABLES
    PARTICIPANTS,   \* coordinator: the configured participant list
    cUp,            \* coordinator process is running
    cTX,            \* coordinator: TX, txid -> record
    cWAL,           \* coordinator: lines of the WAL file
    th,             \* coordinator: one thread per /tx/start request
    pUp,            \* participant process is running
    pTX,            \* participant: TX, txid -> record
    kv,             \* participant: kv store
    pWAL,           \* participant: lines of the WAL file
    hs,             \* participant handler threads (requests being served)
    faults,         \* number of timeouts and crashes so far
    nreq,           \* number of requests of the clients of SpecPart
    resp            \* the last reply one of them got

vars == <<PARTICIPANTS, cUp, cTX, cWAL, th, pUp, pTX, kv, pWAL, hs, faults, nreq, resp>>

-----------------------------------------------------------------------------
(* Bounds of the model *)

MaxParticipants == 2
MaxStarts == 2
MaxFaults == 1
MaxRequests == 3

(* RETRIES: rounds of decision propagation *)
RETRIES == 3

Procs == 1..MaxParticipants
Threads == 1..MaxStarts

(* Transaction ids. A txid is any non-empty string without leading or      *)
(* trailing blanks; "T 1" is one with a blank inside. The first /tx/start  *)
(* names T1 (the names are interchangeable), a later one T1 again or T2.   *)
SysTxids == {"T1", "T2"}
StartTxids(c) == IF c = 1 THEN {"T1"} ELSE SysTxids
PartTxids == {"T1", "T 1"}
Txids == SysTxids \cup PartTxids

(* str.split(): the whitespace-separated words of a txid *)
Words(txid) ==
    IF txid = "" THEN << >> ELSE IF txid = "T 1" THEN <<"T", "1">> ELSE <<txid>>

(* str.upper() on the strings the model uses *)
Upper(s) ==
    CASE s = "set" -> "SET"
      [] s = "del" -> "DEL"
      [] s = "yes" -> "YES"
      [] s = "no" -> "NO"
      [] s = "2pc" -> "2PC"
      [] s = "3pc" -> "3PC"
      [] OTHER -> s

(* str.strip() on the strings the model uses *)
Strip(s) == IF s = " " THEN "" ELSE s

(* Operations a client may submit (JSON objects) *)
OpSet == [type |-> "SET", key |-> "x", value |-> "5"]
OpLower == [type |-> "set", key |-> "x", value |-> "6"]
OpDel == [type |-> "DEL", key |-> "x", value |-> "5"]
OpNoKey == [type |-> "SET", key |-> " ", value |-> "5"]
NoOp == [type |-> "", key |-> "", value |-> ""]
(* body.get("op", None) when the body has no "op", or one that is no object *)
NoneOp == [type |-> "None", key |-> "", value |-> ""]
SysOps == {OpSet, OpDel}
PartOps == {OpSet, OpLower, OpNoKey}

(* Transaction ids and protocol selectors a client may submit; "" is a     *)
(* missing or blank txid after strip()                                     *)
ReqTxids == PartTxids \cup {""}
ReqOps == PartOps \cup {NoneOp}
Protocols == {"2PC", "3pc", "4PC"}

Keys == {"x", " "}
NoVal == "<none>"
EmptyKV == [k \in Keys |-> NoVal]

-----------------------------------------------------------------------------
(* Participant: pure parts of participant.py *)

NoRec == [state |-> "NONE", op |-> NoOp]
EmptyTX == [t \in Txids |-> NoRec]
EmptyPart == [tx |-> EmptyTX, kv |-> EmptyKV]

validate_op(op) ==
    /\ Upper(op.type) = "SET"
    /\ Strip(op.key) # ""

(* Mutant of apply_op: the type is compared without upper() *)
apply_opMutant(store, op) ==
    IF op.type = "set" THEN [store EXCEPT ![op.key] = op.value] ELSE store

apply_op(store, op) ==
    IF Upper(op.type) = "SET" THEN [store EXCEPT ![op.key] = op.value] ELSE store

VoteOf(op) == IF validate_op(op) THEN "YES" ELSE "NO"

VotedState(vote) == IF vote = "YES" THEN "READY" ELSE "ABORTED"

(* The lock section of each POST handler: the reply status, and the new    *)
(* table and store. A status other than 200 is sent inside the section     *)
(* and the handler returns.                                                *)
CommitAllowed(rec) == rec.state \in {"READY", "PRECOMMIT"}

(* Mutant of HandleVote: a YES vote applies the operation right away *)
HandleVoteMutant(s, txid, op) ==
    IF txid = "" \/ op = NoneOp THEN [status |-> 400, s |-> s]
    ELSE [status |-> 200,
          s |-> [tx |-> [s.tx EXCEPT ![txid] = [state |-> VotedState(VoteOf(op)), op |-> op]],
                 kv |-> IF validate_op(op) THEN apply_op(s.kv, op) ELSE s.kv]]

HandleVote(s, txid, op) ==
    IF txid = "" \/ op = NoneOp THEN [status |-> 400, s |-> s]
    ELSE [status |-> 200,
          s |-> [s EXCEPT !.tx[txid] = [state |-> VotedState(VoteOf(op)), op |-> op]]]

HandleCommit(s, txid) ==
    IF txid = "" THEN [status |-> 400, s |-> s]
    ELSE IF ~CommitAllowed(s.tx[txid]) THEN [status |-> 409, s |-> s]
    ELSE [status |-> 200,
          s |-> [tx |-> [s.tx EXCEPT ![txid].state = "COMMITTED"],
                 kv |-> apply_op(s.kv, s.tx[txid].op)]]

HandleAbort(s, txid) ==
    IF txid = "" THEN [status |-> 400, s |-> s]
    ELSE IF s.tx[txid] = NoRec THEN [status |-> 409, s |-> s]
    ELSE [status |-> 200, s |-> [s EXCEPT !.tx[txid].state = "ABORTED"]]

(* Mutant of HandlePrecommit: only the existence of the record is checked *)
HandlePrecommitMutant(s, txid) ==
    IF txid = "" THEN [status |-> 400, s |-> s]
    ELSE IF s.tx[txid] = NoRec THEN [status |-> 409, s |-> s]
    ELSE [status |-> 200, s |-> [s EXCEPT !.tx[txid].state = "PRECOMMIT"]]

HandlePrecommit(s, txid) ==
    IF txid = "" THEN [status |-> 400, s |-> s]
    ELSE IF s.tx[txid].state # "READY" THEN [status |-> 409, s |-> s]
    ELSE [status |-> 200, s |-> [s EXCEPT !.tx[txid].state = "PRECOMMIT"]]

Handle(path, s, txid, op) ==
    CASE path = "/prepare" -> HandleVote(s, txid, op)
      [] path = "/can_commit" -> HandleVote(s, txid, op)
      [] path = "/precommit" -> HandlePrecommit(s, txid)
      [] path = "/commit" -> HandleCommit(s, txid)
      [] path = "/abort" -> HandleAbort(s, txid)

(* The line a handler appends to the WAL after its lock section, as the    *)
(* sequence of its blank-separated words (the JSON of op is one word).     *)
WalLine(path, txid, op) ==
    CASE path = "/prepare" -> Words(txid) \o <<"PREPARE", VoteOf(op), op>>
      [] path = "/can_commit" -> Words(txid) \o <<"CAN_COMMIT", VoteOf(op), op>>
      [] path = "/precommit" -> Words(txid) \o <<"PRECOMMIT">>
      [] path = "/commit" -> Words(txid) \o <<"COMMIT">>
      [] path = "/abort" -> Words(txid) \o <<"ABORT">>

(* wal_replay: one line applied to the table and store *)
ReplayLine(s, line) ==
    IF Len(line) < 2 THEN s
    ELSE LET txid == line[1]
             cmd == line[2]
         IN  CASE cmd \in {"PREPARE", "CAN_COMMIT"} ->
                    LET vote == IF Len(line) > 2 THEN line[3] ELSE "YES"
                        op == IF Len(line) > 2 THEN line[4] ELSE NoOp
                    IN  [s EXCEPT !.tx[txid] = [state |-> VotedState(vote), op |-> op]]
               [] cmd = "COMMIT" ->
                    IF s.tx[txid].state \in {"READY", "PRECOMMIT"}
                    THEN [tx |-> [s.tx EXCEPT ![txid].state = "COMMITTED"],
                          kv |-> apply_op(s.kv, s.tx[txid].op)]
                    ELSE s
               [] cmd = "ABORT" ->
                    IF s.tx[txid] # NoRec THEN [s EXCEPT !.tx[txid].state = "ABORTED"] ELSE s
               [] cmd = "PRECOMMIT" ->
                    IF s.tx[txid].state = "READY"
                    THEN [s EXCEPT !.tx[txid].state = "PRECOMMIT"]
                    ELSE s
               [] OTHER -> s

RECURSIVE ReplayFrom(_, _)
ReplayFrom(s, wal) ==
    IF wal = << >> THEN s ELSE ReplayFrom(ReplayLine(s, Head(wal)), Tail(wal))

(* Mutant of wal_replay: a txid found READY at the end of the replay is    *)
(* presumed aborted                                                        *)
wal_replayMutant(wal) ==
    LET s == ReplayFrom(EmptyPart, wal)
    IN  [s EXCEPT !.tx = [t \in Txids |->
                            IF s.tx[t].state = "READY"
                            THEN [s.tx[t] EXCEPT !.state = "ABORTED"] ELSE s.tx[t]]]

(* wal_replay on startup: table and store are empty *)
wal_replay(wal) == ReplayFrom(EmptyPart, wal)

-----------------------------------------------------------------------------
(* Coordinator: pure parts of coordinator.py *)

NoVotes == [p \in Procs |-> "-"]
NoCRec == [protocol |-> "-", state |-> "NONE", op |-> NoOp, votes |-> NoVotes,
           decision |-> "NONE"]
EmptyCTX == [t \in Txids |-> NoCRec]

(* f"{decision}_SENT" *)
Sent(decision) ==
    CASE decision = "COMMIT" -> "COMMIT_SENT"
      [] decision = "ABORT" -> "ABORT_SENT"
      [] OTHER -> "START_3PC_SENT"

(* coordinator wal_replay: one line applied to the table *)
CoordReplayLine(tx, line) ==
    IF Len(line) < 2 THEN tx
    ELSE LET txid == line[1]
             decision == line[2]
         IN  IF txid \in DOMAIN tx /\ tx[txid] # NoCRec /\ tx[txid].decision = "NONE"
             THEN [tx EXCEPT ![txid].decision = decision, ![txid].state = Sent(decision)]
             ELSE tx

RECURSIVE CoordReplayFrom(_, _)
CoordReplayFrom(tx, wal) ==
    IF wal = << >> THEN tx ELSE CoordReplayFrom(CoordReplayLine(tx, Head(wal)), Tail(wal))

(* post_json: what the caller gets for a reply with this status; vote "-"   *)
(* stands for a body without a "vote" key                                   *)
post_json(status, vote) ==
    IF status = 200 THEN [status |-> 200, vote |-> vote] ELSE [status |-> 500, vote |-> "-"]

(* post_json when the request raised (refused, reset, timed out) *)
TransportError == [status |-> 500, vote |-> "-"]

IdleThread ==
    [pc |-> "idle", txid |-> "", op |-> NoOp, protocol |-> "-", i |-> 0,
     votes |-> NoVotes, all_yes |-> TRUE, decision |-> "NONE", attempt |-> 0,
     success |-> TRUE]

(* decision = "COMMIT" if all_yes else "ABORT" *)
DecisionOf(all_yes) == IF all_yes THEN "COMMIT" ELSE "ABORT"

(* propagate_decision: the endpoint of the terminal message *)
Endpoint(decision) == IF decision = "COMMIT" THEN "/commit" ELSE "/abort"

(* propagate_decision after the reply of participant i-1: next participant, *)
(* next round, or return                                                    *)
(* Mutant of NextRound: one round too many *)
NextRoundMutant(t) ==
    IF t.i <= Len(PARTICIPANTS) THEN t
    ELSE IF t.success \/ t.attempt >= RETRIES + 1 THEN [t EXCEPT !.pc = "done"]
    ELSE [t EXCEPT !.attempt = @ + 1, !.i = 1, !.success = TRUE]

NextRound(t) ==
    IF t.i <= Len(PARTICIPANTS) THEN t
    ELSE IF t.success \/ t.attempt >= RETRIES THEN [t EXCEPT !.pc = "done"]
    ELSE [t EXCEPT !.attempt = @ + 1, !.i = 1, !.success = TRUE]

(* vote = str(resp.get("vote", "NO")).upper() *)
VoteIn(r) == Upper(IF r.vote = "-" THEN "NO" ELSE r.vote)

(* What a coordinator thread does with the result r of its pending post_json *)
OnResponse(t, r) ==
    LET p == PARTICIPANTS[t.i]
    IN  CASE t.pc = "wait_prepare" ->
               [t EXCEPT !.votes[p] = VoteIn(r),
                         !.all_yes = @ /\ VoteIn(r) = "YES",
                         !.i = @ + 1,
                         !.pc = "prepare"]
          [] t.pc = "wait_can_commit" ->
               \* log is not defined: NameError in the try block, and again in
               \* its except block, which ends three_pc
               [t EXCEPT !.votes[p] = "NO_ERROR", !.all_yes = FALSE, !.pc = "raised"]
          [] t.pc = "wait_propagate" ->
               NextRound([t EXCEPT !.success = @ /\ r.status = 200,
                                   !.i = @ + 1,
                                   !.pc = "propagate"])

(* Mutant of CallPath: the terminal message follows the participant's own  *)
(* vote instead of the decision                                            *)
CallPathMutant(t) ==
    CASE t.pc = "prepare" -> "/prepare"
      [] t.pc = "can_commit" -> "/can_commit"
      [] t.pc = "propagate" ->
           IF t.votes[PARTICIPANTS[t.i]] = "YES" THEN "/commit" ELSE "/abort"

CallPath(t) ==
    CASE t.pc = "prepare" -> "/prepare"
      [] t.pc = "can_commit" -> "/can_commit"
      [] t.pc = "propagate" -> Endpoint(t.decision)

WaitPc(pc) ==
    CASE pc = "prepare" -> "wait_prepare"
      [] pc = "can_commit" -> "wait_can_commit"
      [] pc = "propagate" -> "wait_propagate"

-----------------------------------------------------------------------------
(* Initial states *)

(* No client has got a reply yet *)
NoResp == [node |-> 0, rid |-> 0, status |-> 0, vote |-> "-"]

Init ==
    /\ \E n \in 0..MaxParticipants : PARTICIPANTS = [i \in 1..n |-> i]
    /\ cUp = TRUE
    /\ cTX = EmptyCTX
    /\ cWAL = << >>
    /\ th = [c \in Threads |-> IdleThread]
    /\ pUp = [p \in Procs |-> TRUE]
    /\ pTX = [p \in Procs |-> EmptyTX]
    /\ kv = [p \in Procs |-> EmptyKV]
    /\ pWAL = [p \in Procs |-> << >>]
    /\ hs = {}
    /\ faults = 0
    /\ nreq = 0
    /\ resp = NoResp

InitPart ==
    /\ PARTICIPANTS = << >>
    /\ cUp = TRUE
    /\ cTX = EmptyCTX
    /\ cWAL = << >>
    /\ th = [c \in Threads |-> IdleThread]
    /\ pUp = [p \in Procs |-> TRUE]
    /\ pTX = [p \in Procs |-> EmptyTX]
    /\ kv = [p \in Procs |-> EmptyKV]
    /\ pWAL = [p \in Procs |-> << >>]
    /\ hs = {}
    /\ faults = 0
    /\ nreq = 0
    /\ resp = NoResp

-----------------------------------------------------------------------------
(* Coordinator actions *)

(* Mutant of StartRejected: the record is created before the protocol      *)
(* selector is checked                                                     *)
StartRejectedMutant(txid, op, protocol) ==
    /\ cUp
    /\ nreq < MaxRequests
    /\ txid = "" \/ op = NoneOp \/ Upper(protocol) \notin {"2PC", "3PC"}
    /\ nreq' = nreq + 1
    /\ resp' = [node |-> 0, rid |-> nreq + 1, status |-> 400, vote |-> "-"]
    /\ cTX' = IF txid = "" \/ op = NoneOp THEN cTX
              ELSE [cTX EXCEPT ![txid] = [protocol |-> "-", state |-> "PREPARE_SENT",
                                          op |-> op, votes |-> NoVotes, decision |-> "NONE"]]
    /\ UNCHANGED <<PARTICIPANTS, cUp, cWAL, th, pUp, pTX, kv, pWAL, hs, faults>>

(* POST /tx/start that do_POST rejects: txid or op missing, or a protocol  *)
(* other than 2PC and 3PC; the reply is 400                                *)
StartRejected(txid, op, protocol) ==
    /\ cUp
    /\ nreq < MaxRequests
    /\ txid = "" \/ op = NoneOp \/ Upper(protocol) \notin {"2PC", "3PC"}
    /\ nreq' = nreq + 1
    /\ resp' = [node |-> 0, rid |-> nreq + 1, status |-> 400, vote |-> "-"]
    /\ UNCHANGED <<PARTICIPANTS, cUp, cTX, cWAL, th, pUp, pTX, kv, pWAL, hs, faults>>

(* POST /tx/start with protocol 2PC: two_pc up to the end of its first lock section *)
TwoPcStart(c, txid, op) ==
    /\ cUp
    /\ th[c].pc = "idle"
    /\ \A d \in Threads : d < c => th[d].pc # "idle"
    /\ cTX' = [cTX EXCEPT ![txid] = [protocol |-> "2PC", state |-> "PREPARE_SENT",
                                     op |-> op, votes |-> NoVotes, decision |-> "NONE"]]
    /\ th' = [th EXCEPT ![c] = [IdleThread EXCEPT !.pc = "prepare", !.txid = txid,
                                                  !.op = op, !.protocol = "2PC", !.i = 1]]
    /\ UNCHANGED <<PARTICIPANTS, cUp, cWAL, pUp, pTX, kv, pWAL, hs, faults, nreq, resp>>

(* POST /tx/start with protocol 3PC: three_pc's first lock section, which  *)
(* also appends the START_3PC line                                         *)
ThreePcStart(c, txid, op) ==
    /\ cUp
    /\ th[c].pc = "idle"
    /\ \A d \in Threads : d < c => th[d].pc # "idle"
    /\ cTX' = [cTX EXCEPT ![txid] = [protocol |-> "3PC", state |-> "CAN_COMMIT_SENT",
                                     op |-> op, votes |-> NoVotes, decision |-> "NONE"]]
    /\ cWAL' = Append(cWAL, Words(txid) \o <<"START_3PC", op>>)
    /\ th' = [th EXCEPT ![c] = [IdleThread EXCEPT !.pc = "can_commit", !.txid = txid,
                                                  !.op = op, !.protocol = "3PC", !.i = 1]]
    /\ UNCHANGED <<PARTICIPANTS, cUp, pUp, pTX, kv, pWAL, hs, faults, nreq, resp>>

(* The next post_json of a thread's loop over PARTICIPANTS: the request    *)
(* reaches the participant, or is refused when its process is down         *)
Send(c) ==
    LET t == th[c]
        p == PARTICIPANTS[t.i]
        w == [t EXCEPT !.pc = WaitPc(t.pc)]
    IN  /\ cUp
        /\ t.pc \in {"prepare", "can_commit", "propagate"}
        /\ t.i <= Len(PARTICIPANTS)
        /\ IF pUp[p]
           THEN /\ hs' = hs \cup {[rid |-> 0, from |-> c, orphan |-> FALSE, p |-> p,
                                   path |-> CallPath(t), txid |-> t.txid,
                                   op |-> IF t.pc = "propagate" THEN NoOp ELSE t.op,
                                   attempt |-> t.attempt, pc |-> "recv", seq |-> 0]}
                /\ th' = [th EXCEPT ![c] = w]
           ELSE /\ hs' = hs
                /\ th' = [th EXCEPT ![c] = OnResponse(w, TransportError)]
        /\ UNCHANGED <<PARTICIPANTS, cUp, cTX, cWAL, pUp, pTX, kv, pWAL, faults, nreq, resp>>

(* post_json times out: the thread goes on, the participant's handler may  *)
(* still run                                                               *)
Timeout(c) ==
    /\ cUp
    /\ faults < MaxFaults
    /\ \E h \in hs :
          /\ h.from = c /\ ~h.orphan
          /\ hs' = (hs \ {h}) \cup {[h EXCEPT !.orphan = TRUE]}
    /\ th' = [th EXCEPT ![c] = OnResponse(@, TransportError)]
    /\ faults' = faults + 1
    /\ UNCHANGED <<PARTICIPANTS, cUp, cTX, cWAL, pUp, pTX, kv, pWAL, nreq, resp>>

(* two_pc after the prepare loop: the decision and the second lock section *)
Decide(c) ==
    LET t == th[c]
        decision == DecisionOf(t.all_yes)
    IN  /\ cUp
        /\ t.pc = "prepare"
        /\ t.i > Len(PARTICIPANTS)
        /\ cTX' = [cTX EXCEPT ![t.txid].votes = t.votes,
                              ![t.txid].decision = decision,
                              ![t.txid].state = Sent(decision)]
        /\ th' = [th EXCEPT ![c].decision = decision, ![c].pc = "log"]
        /\ UNCHANGED <<PARTICIPANTS, cUp, cWAL, pUp, pTX, kv, pWAL, hs, faults, nreq, resp>>

(* Mutant of LogDecision: propagate_decision begins without wal_append *)
LogDecisionMutant(c) ==
    LET t == th[c]
    IN  /\ cUp
        /\ t.pc = "log"
        /\ th' = [th EXCEPT ![c] = NextRound([t EXCEPT !.pc = "propagate", !.attempt = 1,
                                                       !.i = 1, !.success = TRUE])]
        /\ UNCHANGED <<PARTICIPANTS, cUp, cTX, cWAL, pUp, pTX, kv, pWAL, hs, faults, nreq, resp>>

(* two_pc: wal_append of the decision, then propagate_decision begins *)
LogDecision(c) ==
    LET t == th[c]
    IN  /\ cUp
        /\ t.pc = "log"
        /\ cWAL' = Append(cWAL, Words(t.txid) \o <<t.decision>>)
        /\ th' = [th EXCEPT ![c] = NextRound([t EXCEPT !.pc = "propagate", !.attempt = 1,
                                                       !.i = 1, !.success = TRUE])]
        /\ UNCHANGED <<PARTICIPANTS, cUp, cTX, pUp, pTX, kv, pWAL, hs, faults, nreq, resp>>

(* three_pc after a CanCommit loop that raised nothing (PARTICIPANTS is    *)
(* empty): the lock sections up to the decision; the PreCommit loop has no *)
(* iteration                                                               *)
ThreePcDecide(c) ==
    LET t == th[c]
        precommit_success == TRUE
        decision == IF ~t.all_yes THEN "ABORT" ELSE DecisionOf(precommit_success)
    IN  /\ cUp
        /\ t.pc = "can_commit"
        /\ t.i > Len(PARTICIPANTS)
        /\ cTX' = [cTX EXCEPT ![t.txid].votes = t.votes,
                              ![t.txid].decision = decision,
                              ![t.txid].state = Sent(decision)]
        /\ th' = [th EXCEPT ![c].decision = decision, ![c].pc = "log3"]
        /\ UNCHANGED <<PARTICIPANTS, cUp, cWAL, pUp, pTX, kv, pWAL, hs, faults, nreq, resp>>

(* three_pc: wal_append of the decision, then log(...) raises NameError *)
ThreePcLog(c) ==
    LET t == th[c]
    IN  /\ cUp
        /\ t.pc = "log3"
        /\ cWAL' = Append(cWAL, Words(t.txid) \o <<t.decision, "after", "PreCommit">>)
        /\ th' = [th EXCEPT ![c].pc = "raised"]
        /\ UNCHANGED <<PARTICIPANTS, cUp, cTX, pUp, pTX, kv, pWAL, hs, faults, nreq, resp>>

(* The coordinator process is killed: its threads and its table are gone *)
CCrash ==
    /\ cUp
    /\ faults < MaxFaults
    /\ cUp' = FALSE
    /\ cTX' = EmptyCTX
    /\ th' = [c \in Threads |->
                IF th[c].pc \in {"idle", "done", "raised"} THEN th[c]
                ELSE [IdleThread EXCEPT !.pc = "dead", !.txid = th[c].txid,
                                        !.op = th[c].op, !.protocol = th[c].protocol]]
    /\ hs' = {[h EXCEPT !.orphan = TRUE] : h \in hs}
    /\ faults' = faults + 1
    /\ UNCHANGED <<PARTICIPANTS, cWAL, pUp, pTX, kv, pWAL, nreq, resp>>

(* main: wal_replay, then the server starts *)
CRestart ==
    /\ ~cUp
    /\ cUp' = TRUE
    /\ cTX' = CoordReplayFrom(EmptyCTX, cWAL)
    /\ UNCHANGED <<PARTICIPANTS, cWAL, th, pUp, pTX, kv, pWAL, hs, faults, nreq, resp>>

-----------------------------------------------------------------------------
(* Participant actions *)

(* The number of lines of a WAL that were written for txid *)
TxLines(wal, txid) ==
    LET w == Words(txid)
    IN  Cardinality({k \in 1..Len(wal) :
                        Len(wal[k]) > Len(w) /\ SubSeq(wal[k], 1, Len(w)) = w})

(* The rank, among the state changes made to txid's record at participant  *)
(* p since its WAL began, of the change a lock section is making now: one  *)
(* more than the changes logged and the changes waiting to be logged       *)
Rank(p, txid) ==
    TxLines(pWAL[p], txid)
        + Cardinality({g \in hs : g.p = p /\ g.txid = txid /\ g.pc = "wal"}) + 1

(* The reply of handler h (self._send) reaches the coordinator thread      *)
(* waiting for it, if any, or the client that posted the request           *)
Deliver(h, status, vote) ==
    /\ th' = IF h.orphan THEN th
             ELSE [th EXCEPT ![h.from] = OnResponse(@, post_json(status, vote))]
    /\ resp' = IF h.from = 0
               THEN [node |-> h.p, rid |-> h.rid, status |-> status, vote |-> vote]
               ELSE resp

(* do_POST up to the end of its lock section: a rejected request is        *)
(* answered here and changes nothing                                       *)
HLock(h) ==
    LET r == Handle(h.path, [tx |-> pTX[h.p], kv |-> kv[h.p]], h.txid, h.op)
    IN  /\ h.pc = "recv"
        /\ pTX' = [pTX EXCEPT ![h.p] = r.s.tx]
        /\ kv' = [kv EXCEPT ![h.p] = r.s.kv]
        /\ IF r.status = 200
           THEN /\ hs' = (hs \ {h}) \cup {[h EXCEPT !.pc = "wal", !.seq = Rank(h.p, h.txid)]}
                /\ UNCHANGED <<th, resp>>
           ELSE /\ hs' = hs \ {h}
                /\ Deliver(h, r.status, "-")
        /\ UNCHANGED <<PARTICIPANTS, cUp, cTX, cWAL, pUp, pWAL, faults, nreq>>

(* do_POST after its lock section: wal_append, then the 200 reply *)
HWal(h) ==
    /\ h.pc = "wal"
    /\ pWAL' = [pWAL EXCEPT ![h.p] = Append(@, WalLine(h.path, h.txid, h.op))]
    /\ hs' = hs \ {h}
    /\ Deliver(h, 200, IF h.path \in {"/prepare", "/can_commit"} THEN VoteOf(h.op) ELSE "-")
    /\ UNCHANGED <<PARTICIPANTS, cUp, cTX, cWAL, pUp, pTX, kv, faults, nreq>>

(* A participant process is killed: table, store and handlers are gone,    *)
(* callers get a transport error                                           *)
PCrash(p) ==
    /\ pUp[p]
    /\ faults < MaxFaults
    /\ pUp' = [pUp EXCEPT ![p] = FALSE]
    /\ pTX' = [pTX EXCEPT ![p] = EmptyTX]
    /\ kv' = [kv EXCEPT ![p] = EmptyKV]
    /\ hs' = {h \in hs : h.p # p}
    /\ th' = [c \in Threads |->
                IF \E h \in hs : h.p = p /\ h.from = c /\ ~h.orphan
                THEN OnResponse(th[c], TransportError)
                ELSE th[c]]
    /\ faults' = faults + 1
    /\ UNCHANGED <<PARTICIPANTS, cUp, cTX, cWAL, pWAL, nreq, resp>>

(* main: wal_replay, then the server starts *)
PRestart(p) ==
    /\ ~pUp[p]
    /\ pUp' = [pUp EXCEPT ![p] = TRUE]
    /\ pTX' = [pTX EXCEPT ![p] = wal_replay(pWAL[p]).tx]
    /\ kv' = [kv EXCEPT ![p] = wal_replay(pWAL[p]).kv]
    /\ UNCHANGED <<PARTICIPANTS, cUp, cTX, cWAL, th, pWAL, hs, faults, nreq, resp>>

(* A client posts a request to participant p *)
ClientRequest(p, path, txid, op) ==
    /\ pUp[p]
    /\ nreq < MaxRequests
    /\ nreq' = nreq + 1
    /\ hs' = hs \cup {[rid |-> nreq + 1, from |-> 0, orphan |-> TRUE, p |-> p,
                       path |-> path, txid |-> txid, op |-> op, attempt |-> 0,
                       pc |-> "recv", seq |-> 0]}
    /\ UNCHANGED <<PARTICIPANTS, cUp, cTX, cWAL, th, pUp, pTX, kv, pWAL, faults, resp>>

-----------------------------------------------------------------------------
(* Specifications *)

Configured == {PARTICIPANTS[i] : i \in 1..Len(PARTICIPANTS)}

Next ==
    \/ \E c \in Threads, op \in SysOps : \E txid \in StartTxids(c) : TwoPcStart(c, txid, op)
    \/ \E c \in Threads, op \in SysOps : \E txid \in StartTxids(c) : ThreePcStart(c, txid, op)
    \/ \E c \in Threads : Send(c)
    \/ \E c \in Threads : Timeout(c)
    \/ \E c \in Threads : Decide(c)
    \/ \E c \in Threads : LogDecision(c)
    \/ \E c \in Threads : ThreePcDecide(c)
    \/ \E c \in Threads : ThreePcLog(c)
    \/ CCrash
    \/ CRestart
    \/ \E h \in hs : HLock(h)
    \/ \E h \in hs : HWal(h)
    \/ \E p \in Configured : PCrash(p)
    \/ \E p \in Configured : PRestart(p)

Spec == Init /\ [][Next]_vars

NextPart ==
    \/ \E path \in {"/prepare", "/can_commit"}, txid \in ReqTxids, op \in ReqOps :
          ClientRequest(1, path, txid, op)
    \/ \E path \in {"/precommit", "/commit", "/abort"}, txid \in ReqTxids :
          ClientRequest(1, path, txid, NoOp)
    \/ \E txid \in {"", "T1"}, op \in {NoneOp, OpSet}, protocol \in Protocols :
          StartRejected(txid, op, protocol)
    \/ \E h \in hs : HLock(h)
    \/ \E h \in hs : HWal(h)
    \/ PCrash(1)
    \/ PRestart(1)

SpecPart == InitPart /\ [][NextPart]_vars

NextRun ==
    \/ \E op \in SysOps \cup PartOps : TwoPcStart(1, "T1", op)
    \/ \E op \in SysOps \cup PartOps : ThreePcStart(1, "T1", op)
    \/ Send(1)
    \/ Decide(1)
    \/ LogDecision(1)
    \/ ThreePcDecide(1)
    \/ ThreePcLog(1)
    \/ \E h \in hs : HLock(h)
    \/ \E h \in hs : HWal(h)

SpecRun == Init /\ [][NextRun]_vars /\ WF_vars(NextRun)

(* One /tx/start on a fresh system, with crashes and restarts of the       *)
(* coordinator and of the participants; whatever can run does run          *)
NextCrash ==
    \/ \E op \in SysOps \cup PartOps : TwoPcStart(1, "T1", op)
    \/ \E op \in SysOps \cup PartOps : ThreePcStart(1, "T1", op)
    \/ Send(1)
    \/ Decide(1)
    \/ LogDecision(1)
    \/ ThreePcDecide(1)
    \/ ThreePcLog(1)
    \/ CCrash
    \/ CRestart
    \/ \E h \in hs : HLock(h)
    \/ \E h \in hs : HWal(h)
    \/ \E p \in Configured : PCrash(p)
    \/ \E p \in Configured : PRestart(p)

SpecCrash == Init /\ [][NextCrash]_vars /\ WF_vars(NextCrash)

-----------------------------------------------------------------------------
(* Vocabulary of the properties *)

(* The run of thread c is over: two_pc returned, or three_pc raised *)
Ended(t) == t.pc \in {"done", "raised"}

(* The run of thread c is the only /tx/start so far *)
Alone(c) == \A d \in Threads \ {c} : th[d].pc = "idle"

(* No txid was given to two /tx/start requests *)
StartedOnce ==
    \A c, d \in Threads :
        (c # d /\ th[c].pc # "idle" /\ th[d].pc # "idle") => th[c].txid # th[d].txid

(* The coordinator WAL holds a line that reads (txid, decision) *)
CoordLogged(txid, decision) ==
    \E k \in 1..Len(cWAL) :
        /\ Len(cWAL[k]) >= Len(Words(txid)) + 1
        /\ SubSeq(cWAL[k], 1, Len(Words(txid)) + 1) = Words(txid) \o <<decision>>

(* The decisions the coordinator WAL holds for txid *)
LoggedDecisions(txid) == {d \in {"COMMIT", "ABORT"} : CoordLogged(txid, d)}

(* The WAL of participant p holds the line written for the transition that *)
(* gave txid its present state                                             *)
PartLogged(p, txid) ==
    LET rec == pTX[p][txid]
        w == Words(txid)
        Has(line) == \E k \in 1..Len(pWAL[p]) : pWAL[p][k] = line
    IN  CASE rec.state = "READY" ->
               Has(w \o <<"PREPARE", "YES", rec.op>>) \/ Has(w \o <<"CAN_COMMIT", "YES", rec.op>>)
          [] rec.state = "ABORTED" ->
               \/ Has(w \o <<"PREPARE", "NO", rec.op>>)
               \/ Has(w \o <<"CAN_COMMIT", "NO", rec.op>>)
               \/ Has(w \o <<"ABORT">>)
          [] rec.state = "PRECOMMIT" -> Has(w \o <<"PRECOMMIT">>)
          [] rec.state = "COMMITTED" -> Has(w \o <<"COMMIT">>)
          [] OTHER -> TRUE

(* The step of a commit on one record: the record goes from READY or       *)
(* PRECOMMIT to COMMITTED and the store gets the record's key set to its   *)
(* value                                                                   *)
CommitStep(rec, rec2, store, store2) ==
    /\ rec.state \in {"READY", "PRECOMMIT"}
    /\ rec2.state = "COMMITTED"
    /\ store2 = [store EXCEPT ![rec.op.key] = rec.op.value]

(* Every line wal_replay applies changes the store in a commit step only *)
RECURSIVE ReplayFrame(_, _)
ReplayFrame(s, wal) ==
    IF wal = << >> THEN TRUE
    ELSE LET n == ReplayLine(s, Head(wal))
         IN  /\ n.kv # s.kv => \E t \in Txids : CommitStep(s.tx[t], n.tx[t], s.kv, n.kv)
             /\ ReplayFrame(n, Tail(wal))

(* The reply with this status and no vote that the client of handler h gets *)
Reply(h, status) == [node |-> h.p, rid |-> h.rid, status |-> status, vote |-> "-"]

(* This step is the one in which handler h runs its lock section, or, if   *)
(* it is past it, appends its line and replies                             *)
Runs(h) ==
    /\ h \in hs /\ h \notin hs'
    /\ [h EXCEPT !.orphan = TRUE] \notin hs'
    /\ pUp'[h.p]

(* Handler h has returned in this step: nothing of it is left to run *)
Returned(h) ==
    /\ Runs(h)
    /\ \A g \in hs' \ hs : [g EXCEPT !.pc = h.pc, !.seq = h.seq] # h

(* Handler h, about to run its lock section, serves a request without a    *)
(* txid or, on /prepare and /can_commit, without an operation              *)
Incomplete(h) ==
    /\ h.pc = "recv"
    /\ h.txid = "" \/ (h.path \in {"/prepare", "/can_commit"} /\ h.op = NoneOp)

(* Handler h, about to run its lock section, serves a /prepare or          *)
(* /can_commit with a txid and an operation validate_op refuses            *)
Unsupported(h) ==
    /\ h.pc = "recv"
    /\ h.path \in {"/prepare", "/can_commit"}
    /\ h.txid # "" /\ h.op # NoneOp /\ ~validate_op(h.op)

(* A step in which a client gets a 400 reply changes no table, store or    *)
(* WAL, and the handler has returned; a request without txid or operation  *)
(* gets that reply                                                         *)
RejectedMutatesNothing ==
    /\ (resp' # resp /\ resp'.status = 400)
          => /\ cTX' = cTX /\ cWAL' = cWAL /\ pTX' = pTX /\ kv' = kv /\ pWAL' = pWAL
             /\ \A h \in hs : Runs(h) => Returned(h)
    /\ \A h \in hs : (Incomplete(h) /\ Runs(h)) => resp' = Reply(h, 400)

(* Thread t is in propagate_decision, about to post or waiting for a reply *)
InPropagation(t) == t.pc \in {"propagate", "wait_propagate"}

(* The number of steps propagate_decision has left at most: two for each   *)
(* participant of this round and of the rounds after it                    *)
StepsLeft(t) ==
    2 * ((RETRIES - t.attempt) * Len(PARTICIPANTS) + (Len(PARTICIPANTS) - t.i))
        + (IF t.pc = "propagate" THEN 1 ELSE 0)

(* The WAL of participant p has lines for txid, and all of them are YES    *)
(* votes: p voted YES and no commit, abort or precommit got as far as the   *)
(* WAL                                                                     *)
VotedYesOnly(p, txid) ==
    LET w == Words(txid)
        Of(line) == Len(line) > Len(w) /\ SubSeq(line, 1, Len(w)) = w
        Mine == {k \in 1..Len(pWAL[p]) : Of(pWAL[p][k])}
    IN  /\ Mine # {}
        /\ \A k \in Mine :
              /\ pWAL[p][k][Len(w) + 1] \in {"PREPARE", "CAN_COMMIT"}
              /\ pWAL[p][k][Len(w) + 2] = "YES"

(* The coordinator was killed in its two_pc run after every participant    *)
(* had voted YES, and no commit or abort message has been served since     *)
Blocked ==
    /\ th[1].pc = "dead" /\ th[1].protocol = "2PC"
    /\ \A p \in Configured : VotedYesOnly(p, th[1].txid)
    /\ \A h \in hs : h.pc = "wal" => h.path \notin {"/commit", "/abort"}

(* What GET /status of participant p returns of its table and store *)
PartStatus(p) == [tx |-> pTX[p], kv |-> kv[p]]

-----------------------------------------------------------------------------
(* C1. Unanimity: when a run of two_pc or three_pc is over, the decision   *)
(* is COMMIT if every participant's first-phase reply carried vote YES and *)
(* ABORT otherwise (a NO, a transport failure, a timeout, no vote).        *)
(* Violated: three_pc ends with decision None whenever it has a            *)
(* participant to ask.                                                     *)
C1_Unanimity ==
    \A c \in Threads :
        Ended(th[c]) =>
            th[c].decision = DecisionOf(\A p \in Configured : th[c].votes[p] = "YES")

(* The two_pc half of C1, which holds *)
TwoPcUnanimity ==
    \A c \in Threads :
        (th[c].protocol = "2PC" /\ th[c].pc \in {"log", "propagate", "wait_propagate", "done"}) =>
            th[c].decision = DecisionOf(\A p \in Configured : th[c].votes[p] = "YES")

C3_TerminalStateStays ==
    [][\A p \in Procs, t \in Txids :
          (pUp[p] /\ pUp'[p] /\ pTX[p][t].state \in {"COMMITTED", "ABORTED"})
              => pTX'[p][t].state = pTX[p][t].state]_vars

(* C4. Coordinator terminal immutability: a record in COMMIT_SENT or       *)
(* ABORT_SENT with a decision keeps its state and decision in every step   *)
(* of the running coordinator.                                             *)
(* Violated: /tx/start with the txid of such a record replaces it.         *)
C4_CoordTerminalStays ==
    [][\A t \in Txids :
          (cUp /\ cUp' /\ cTX[t].state \in {"COMMIT_SENT", "ABORT_SENT"}
               /\ cTX[t].decision # "NONE")
              => (cTX'[t].state = cTX[t].state /\ cTX'[t].decision = cTX[t].decision)]_vars

(* C5. Abort means no effect: while the coordinator's decision for a txid  *)
(* is ABORT, no participant applies that txid's operation (no record of it *)
(* goes from READY or PRECOMMIT to COMMITTED).                             *)
(* Violated: two overlapping /tx/start of one txid, one deciding COMMIT    *)
(* and one ABORT.                                                          *)
C5_AbortNoEffect ==
    [][\A t \in Txids, p \in Procs :
          cTX[t].decision = "ABORT"
              => ~(pTX[p][t].state \in {"READY", "PRECOMMIT"}
                   /\ pTX'[p][t].state = "COMMITTED")]_vars

(* C6. 2PC commit outcome: a two_pc run of an operation every participant *)
(* votes YES to, alone and without timeouts or crashes, returns COMMIT,    *)
(* and when it has returned every participant holds the txid COMMITTED and *)
(* its store maps the key to the value.                                    *)
C6_TwoPcCommitOutcome ==
    (th[1].protocol = "2PC" /\ validate_op(th[1].op))
        ~> /\ th[1].pc = "done"
           /\ th[1].decision = "COMMIT"
           /\ \A p \in Configured :
                 /\ pTX[p][th[1].txid].state = "COMMITTED"
                 /\ kv[p][th[1].op.key] = th[1].op.value

(* C6's case: two_pc has returned COMMIT for SET x=5 with two participants *)
C6_Witness ==
    /\ Len(PARTICIPANTS) = 2
    /\ th[1].protocol = "2PC" /\ th[1].pc = "done" /\ th[1].decision = "COMMIT"
    /\ th[1].op = OpSet
    /\ \A p \in Configured : kv[p]["x"] = "5" /\ pTX[p]["T1"].state = "COMMITTED"

(* C7. 3PC decision: a three_pc run with a participant, a valid SET and no *)
(* timeout or crash does not end without returning a decision.             *)
(* Violated: three_pc raises NameError after the first can_commit reply.   *)
C7_ThreePcReturns ==
    \A c \in Threads :
        (th[c].protocol = "3PC" /\ Len(PARTICIPANTS) > 0 /\ validate_op(th[c].op)
         /\ faults = 0)
            => th[c].pc # "raised"

(* C8. Durability before observation: every state a status query can show  *)
(* (participant READY/ABORTED/PRECOMMIT/COMMITTED, coordinator decision)    *)
(* is already a line of that node's WAL.                                    *)
(* Violated: every handler changes the table first, releases the lock, and  *)
(* appends to the WAL afterwards.                                           *)
C8_DurableBeforeObservable ==
    /\ \A p \in Procs, t \in Txids : pUp[p] => PartLogged(p, t)
    /\ \A t \in Txids :
          (cUp /\ cTX[t].decision # "NONE") => CoordLogged(t, cTX[t].decision)

(* C9. Decision logged before propagation: whenever a commit or abort      *)
(* message of the coordinator is on its way or being served, the           *)
(* coordinator WAL holds the line (txid, that decision).                   *)
C9_LoggedBeforePropagation ==
    \A h \in hs :
        (h.from \in Threads /\ h.path \in {"/commit", "/abort"})
            => CoordLogged(h.txid, IF h.path = "/commit" THEN "COMMIT" ELSE "ABORT")

(* C9's case: a commit message and an abort message are being served *)
C9_Witness ==
    /\ \E h \in hs : h.from \in Threads /\ h.path = "/commit"
    /\ \E h \in hs : h.from \in Threads /\ h.path = "/abort"

(* C10. Participant recovery equivalence: at every point of a live run,    *)
(* replaying the WAL into an empty table and store gives the table and     *)
(* store of the live process.                                              *)
(* Violated: between a handler's lock section and its wal_append the WAL   *)
(* is behind the table.                                                    *)
C10_RecoveryEquivalence ==
    \A p \in Procs : pUp[p] => wal_replay(pWAL[p]) = PartStatus(p)

(* C11. Coordinator recovery: the restart (wal_replay into the empty       *)
(* table) leaves, for every txid with a COMMIT or ABORT line in the        *)
(* coordinator WAL, a record with a logged decision and the matching       *)
(* COMMIT_SENT or ABORT_SENT state.                                        *)
(* Violated: wal_replay only updates records that are in the table, and    *)
(* the table is empty at startup.                                          *)
C11_RecoveryRebuildsDecisions ==
    [][(~cUp /\ cUp') =>
          \A t \in Txids :
              LoggedDecisions(t) # {} =>
                  /\ cTX'[t].decision \in LoggedDecisions(t)
                  /\ cTX'[t].state = Sent(cTX'[t].decision)]_vars

(* C12. Resumed propagation: once the coordinator has crashed with the     *)
(* line (txid, COMMIT) in its WAL, it restarts and every participant (all  *)
(* voted YES) comes to hold the txid COMMITTED.                            *)
(* Violated: main replays the WAL and serves requests; nothing sends the   *)
(* commit message again, the participants stay READY.                      *)
C12_ResumedPropagation ==
    (~cUp /\ CoordLogged("T1", "COMMIT"))
        ~> (\A p \in Configured : pTX[p]["T1"].state = "COMMITTED")

(* C13. Store frame condition: a participant's store changes only in the   *)
(* step that takes a record from READY or PRECOMMIT to COMMITTED, live or  *)
(* in the replay of a COMMIT line, and then by setting the record's key to *)
(* its value; every other step of the running participant leaves the store *)
(* as it is.                                                               *)
C13_StoreFrame ==
    [][\A p \in Procs :
          /\ (pUp[p] /\ pUp'[p] /\ kv'[p] # kv[p])
                => \E t \in Txids : CommitStep(pTX[p][t], pTX'[p][t], kv[p], kv'[p])
          /\ (~pUp[p] /\ pUp'[p])
                => /\ ReplayFrame(EmptyPart, pWAL[p])
                   /\ kv'[p] = wal_replay(pWAL[p]).kv]_vars

(* C13's case: after a crash and a restart the participant holds T1        *)
(* COMMITTED, logged, and its store holds the value                        *)
C13_Witness ==
    /\ faults > 0 /\ pUp[1]
    /\ pTX[1]["T1"].state = "COMMITTED"
    /\ kv[1]["x"] = "6"
    /\ Len(pWAL[1]) = 2
    /\ hs = {}

(* C14. Conflict errors leave state untouched: a precommit for a txid      *)
(* whose record is absent or not READY, and a commit for a txid whose      *)
(* record is absent or neither READY nor PRECOMMIT, is answered 409 and    *)
(* the handler returns with the table, the store and the WAL as they were. *)
C14_ConflictLeavesState ==
    [][\A h \in hs :
          (/\ h.pc = "recv" /\ h.txid # "" /\ Runs(h)
           /\ \/ h.path = "/precommit" /\ pTX[h.p][h.txid].state # "READY"
              \/ h.path = "/commit" /\ pTX[h.p][h.txid].state \notin {"READY", "PRECOMMIT"})
              => /\ Returned(h)
                 /\ h.from = 0 => resp' = Reply(h, 409)
                 /\ pTX' = pTX /\ kv' = kv /\ pWAL' = pWAL]_vars

(* C14's case: with T1 ABORTED by two logged requests, the third request   *)
(* was the last to be answered, with 409, and nothing else was logged      *)
C14_Witness ==
    /\ nreq = 3 /\ hs = {} /\ faults = 0
    /\ resp.rid = 3 /\ resp.status = 409
    /\ pTX[1]["T1"].state = "ABORTED"
    /\ pTX[1]["T 1"] = NoRec
    /\ Len(pWAL[1]) = 2

(* C15 as stated. Validation errors mutate nothing: a request without txid *)
(* or operation, a /tx/start with an unsupported protocol, and a /prepare  *)
(* or /can_commit with an unsupported operation type or an empty key, is   *)
(* rejected, creates or changes no record and appends no WAL line.         *)
(* Violated: /prepare and /can_commit record an operation validate_op      *)
(* refuses as ABORTED and log the NO vote.                                 *)
C15_ValidationMutatesNothing ==
    [][/\ RejectedMutatesNothing
       /\ \A h \in hs :
             (Unsupported(h) /\ Runs(h))
                 => /\ Returned(h)
                    /\ resp' = Reply(h, 400)
                    /\ pTX' = pTX /\ pWAL' = pWAL]_vars

(* C15 amended. A request rejected with 400 (no txid, no operation, or at  *)
(* the coordinator an unsupported protocol) creates or changes no record   *)
(* and appends no WAL line; a /prepare or /can_commit with an operation    *)
(* validate_op refuses is not rejected: it records the txid ABORTED with   *)
(* that operation, and then logs and answers the vote NO.                  *)
C15_RejectedMutatesNothing ==
    [][/\ RejectedMutatesNothing
       /\ \A h \in hs :
             (Unsupported(h) /\ Runs(h))
                 => /\ ~Returned(h)
                    /\ resp' = resp
                    /\ pTX'[h.p][h.txid] = [state |-> "ABORTED", op |-> h.op]
       /\ \A h \in hs :
             (h.pc = "wal" /\ h.path \in {"/prepare", "/can_commit"}
              /\ ~validate_op(h.op) /\ Runs(h))
                 => /\ Returned(h)
                    /\ resp' = [Reply(h, 200) EXCEPT !.vote = "NO"]
                    /\ pWAL'[h.p] = Append(pWAL[h.p], WalLine(h.path, h.txid, h.op))]_vars

(* C15's case: with T1 READY and logged, the third request was the last to *)
(* be answered, with 400 by the participant                                *)
C15_Witness ==
    /\ nreq = 3 /\ hs = {} /\ faults = 0
    /\ resp = [node |-> 1, rid |-> 3, status |-> 400, vote |-> "-"]
    /\ pTX[1]["T1"].state = "READY"
    /\ Len(pWAL[1]) = 1

(* C16. Bounded whole-round retry: propagate_decision runs at most RETRIES *)
(* rounds and every step of it brings its end nearer; a round posts the    *)
(* terminal message to each participant in turn, whatever the earlier      *)
(* replies were; it returns after a round in which every reply was 200,    *)
(* and otherwise only after round RETRIES.                                 *)
C16_BoundedRetry ==
    [][\A c \in Threads :
          LET t == th[c]
              u == th'[c]
              n == Len(PARTICIPANTS)
          IN  /\ InPropagation(u) => (u.attempt \in 1..RETRIES /\ u.i \in 1..n)
              /\ (InPropagation(t) /\ u # t /\ cUp')
                    => \/ u.pc = "done" /\ t.i = n /\ (u.success \/ u.attempt = RETRIES)
                       \/ InPropagation(u) /\ StepsLeft(u) < StepsLeft(t)
              /\ (t.pc = "propagate" /\ u # t /\ cUp' /\ pUp[PARTICIPANTS[t.i]])
                    => \E h \in hs' \ hs :
                          /\ h.from = c /\ h.p = PARTICIPANTS[t.i]
                          /\ h.path = Endpoint(t.decision) /\ h.txid = t.txid
              /\ (t.pc = "wait_propagate" /\ u # t /\ cUp' /\ t.i < n)
                    => u.i = t.i + 1 /\ u.attempt = t.attempt
              /\ (t.pc = "wait_propagate" /\ u # t /\ cUp' /\ t.i = n /\ u.pc # "done")
                    => u.i = 1 /\ u.attempt = t.attempt + 1
              /\ \A h \in hs :
                    (/\ t.pc = "wait_propagate" /\ t.i = n /\ t.success
                     /\ h.from = c /\ ~h.orphan /\ h.pc = "wal" /\ Runs(h))
                        => u.pc = "done" /\ u.success]_vars

(* C16's case: propagate_decision has returned after round RETRIES with a  *)
(* failed reply in it                                                      *)
C16_Witness ==
    \E c \in Threads :
        /\ th[c].pc = "done" /\ th[c].attempt = RETRIES /\ ~th[c].success
        /\ Len(PARTICIPANTS) = 2

(* C17. Idempotent delivery of a terminal decision: a commit for a txid    *)
(* whose record is COMMITTED, and an abort for one whose record is         *)
(* ABORTED, is not rejected (its reply is 200) and leaves the record and   *)
(* the store as they were.                                                 *)
(* Violated: /commit answers 409 unless the record is READY or PRECOMMIT.  *)
C17_IdempotentDelivery ==
    [][\A h \in hs :
          (/\ h.pc = "recv" /\ h.txid # "" /\ Runs(h)
           /\ \/ h.path = "/commit" /\ pTX[h.p][h.txid].state = "COMMITTED"
              \/ h.path = "/abort" /\ pTX[h.p][h.txid].state = "ABORTED")
              => /\ pTX'[h.p][h.txid] = pTX[h.p][h.txid]
                 /\ kv'[h.p] = kv[h.p]
                 /\ Returned(h) => (h.from = 0 /\ resp' = Reply(h, 200))]_vars

(* C18. Lock scope: a step that is a lock section (it reads or writes the  *)
(* transaction table or the store under the node's lock) appends nothing   *)
(* to the WAL and writes no HTTP reply; appends, requests and replies are  *)
(* steps of their own, taken without the lock.                             *)
(* Violated: three_pc appends its START_3PC line inside its first lock     *)
(* section, and a participant writes its 409 replies inside the lock       *)
(* section.                                                                *)
C18_LockScope ==
    [][/\ (cUp /\ cUp' /\ cTX' # cTX) => cWAL' = cWAL
       /\ \A h \in hs :
             (h.pc = "recv" /\ h.txid # "" /\ h.op # NoneOp /\ Runs(h))
                 => (pWAL' = pWAL /\ th' = th /\ resp' = resp)]_vars

(* C19. 2PC blocking: when the coordinator has crashed after every         *)
(* participant voted YES and no commit or abort message has been served,   *)
(* every running participant holds the txid READY with its store           *)
(* untouched, also after the coordinator or the participant restarted. A   *)
(* participant never leaves READY on its own: a READY record changes, and  *)
(* the store changes, only in the step that serves a commit or abort       *)
(* message for the txid, and a restart brings the voted txid back READY.   *)
C19_TwoPcBlocking ==
    [][/\ Blocked' =>
             \A p \in Configured :
                 pUp'[p] => (pTX'[p][th[1].txid].state = "READY" /\ kv'[p] = EmptyKV)
       /\ \A p \in Procs, t \in Txids :
             (pUp[p] /\ pUp'[p] /\ pTX[p][t].state = "READY"
              /\ (pTX'[p][t].state # "READY" \/ kv'[p] # kv[p]))
                 => \E h \in hs :
                       /\ h.p = p /\ h.txid = t /\ h.pc = "recv" /\ Runs(h)
                       /\ h.path \in {"/commit", "/abort"}
       /\ \A p \in Procs, t \in Txids :
             (~pUp[p] /\ pUp'[p] /\ VotedYesOnly(p, t))
                 => pTX'[p][t].state = "READY"]_vars

(* C19's case: the coordinator crashed and came back, two participants     *)
(* voted YES, nothing is in flight, and both hold T1 READY                 *)
C19_Witness ==
    /\ Blocked /\ cUp /\ hs = {}
    /\ Len(PARTICIPANTS) = 2
    /\ \A p \in Configured : pTX[p]["T1"].state = "READY" /\ kv[p] = EmptyKV

(* C20. WAL order matches transition order: the line a handler appends for *)
(* a txid has, among that txid's lines in the participant's WAL, the rank  *)
(* its state change had among the changes made to that txid's record under *)
(* the lock.                                                               *)
(* Violated: the append follows the lock section outside the lock, so of   *)
(* two handlers of one txid the second to change the record can be the     *)
(* first to append.                                                        *)
C20_WalOrderIsLockOrder ==
    [][\A h \in hs :
          (h.pc = "wal" /\ Runs(h)) => TxLines(pWAL'[h.p], h.txid) = h.seq]_vars

====
